---- MODULE Spec2Model ----
(***************************************************************************)
(* A model of the relaxed-JSON (HOCON-like) parser of src/src/lib.rs.      *)
(*                                                                         *)
(* The parser is a pure function from a byte slice to a nom IResult.  A    *)
(* byte is modelled as a one-character string, a slice as a sequence of    *)
(* bytes, a JsonValue as a record and an IResult as a record.  The nom 3   *)
(* combinators the source is written with (tag!, char!, alt!, opt!,        *)
(* complete!, separated_list_complete!, digit, double) are modelled by     *)
(* what they do on Done / Error / Incomplete.                              *)
(***************************************************************************)
EXTENDS Integers, Sequences, FiniteSets, TLC

VARIABLES
    docA,     \* the first document handed to the parser (a byte sequence)
    docB,     \* the second document (a variant of the first)
    parser,   \* the parsers called on docA and on docB: "root", "value" or "none"
    meta,     \* how docA and docB were built (family, keys, values, separator ...)
    resA,     \* IResult of the parser on docA
    resB,     \* IResult of the parser on docB
    old,      \* merge_json: first argument (also the first of three merged values)
    new,      \* merge_json: second argument
    third,    \* a third value merged after the first two
    merged,   \* results of the merge_json calls
    pc        \* position of the caller

vars == <<docA, docB, parser, meta, resA, resB, old, new, third, merged, pc>>

-----------------------------------------------------------------------------
(* Bytes and slices *)

NL == "\n"
TAB == "\t"
QUOTE == "\""
BSLASH == "\\"
SP == " "

DigitChars == <<"0", "1", "2", "3", "4", "5", "6", "7", "8", "9">>

is_dec_digit(c) == \E i \in 1..10 : DigitChars[i] = c

DigitVal(c) == (CHOOSE i \in 1..10 : DigitChars[i] = c) - 1

\* &input[n..]
Drop(input, n) == SubSeq(input, n + 1, Len(input))

\* &input[..n]
Take(input, n) == SubSeq(input, 1, n)

-----------------------------------------------------------------------------
(* JsonValue: every variant carries every field, so that two values of     *)
(* different variants can be compared.                                     *)
(*   b: Boolean payload; n: Int payload, or the mantissa of a Float;       *)
(*   e: decimal exponent of a Float; s: String payload (bytes);            *)
(*   a: Array payload; o: Object payload, a function from key to value.    *)
(* Int is written JInt: Int is the set of integers of module Integers.     *)

EmptyMap == <<>>

Null == [t |-> "Null", b |-> FALSE, n |-> 0, e |-> 0, s |-> <<>>, a |-> <<>>, o |-> EmptyMap]

Boolean(b) == [Null EXCEPT !.t = "Boolean", !.b = b]

JInt(n) == [Null EXCEPT !.t = "Int", !.n = n]

Float(m, e) == [Null EXCEPT !.t = "Float", !.n = m, !.e = e]

String(s) == [Null EXCEPT !.t = "String", !.s = s]

Array(a) == [Null EXCEPT !.t = "Array", !.a = a]

Object(o) == [Null EXCEPT !.t = "Object", !.o = o]

\* HashMap::insert: the entry for key is set, replacing one that is there
MapInsert(m, key, value) ==
    [x \in (DOMAIN m) \cup {key} |-> IF x = key THEN value ELSE m[x]]

\* HashMap::remove: the map without the entry for key
MapRemove(m, key) == [x \in (DOMAIN m) \ {key} |-> m[x]]

-----------------------------------------------------------------------------
(* IResult *)

Done(rest, out) == [k |-> "Done", rest |-> rest, out |-> out]

Error == [k |-> "Error", rest |-> <<>>, out |-> <<>>]

Incomplete == [k |-> "Incomplete", rest |-> <<>>, out |-> <<>>]

IsDone(r) == r.k = "Done"

-----------------------------------------------------------------------------
(* nom combinators *)

(* A parser result that later steps use more than once is bound the way a  *)
(* Rust `let` binds it:                                                    *)
(*     CHOOSE r \in {body : x \in {e}} : TRUE                              *)
(* is body with x bound to the value of e; the set has that one element.   *)

\* tag!(t): compare the first min(len, blen) bytes; a matching but too short
\* input is Incomplete
tag(input, t) ==
    LET m == IF Len(input) < Len(t) THEN Len(input) ELSE Len(t)
    IN  IF Take(input, m) # Take(t, m) THEN Error
        ELSE IF m < Len(t) THEN Incomplete
        ELSE Done(Drop(input, Len(t)), t)

\* char!(c): Incomplete on an empty input
char(input, c) ==
    IF Len(input) = 0 THEN Incomplete
    ELSE IF input[1] # c THEN Error
    ELSE Done(Drop(input, 1), c)

\* the number of leading decimal digits of input
digit_end(input) ==
    IF \A i \in 1..Len(input) : is_dec_digit(input[i]) THEN Len(input)
    ELSE (CHOOSE i \in 1..Len(input) :
              /\ ~is_dec_digit(input[i])
              /\ \A j \in 1..(i - 1) : is_dec_digit(input[j])) - 1

\* nom::digit: one or more digits; Incomplete on an empty input, Done when
\* the digits run to the end of the input
digit(input) ==
    IF Len(input) = 0 THEN Incomplete
    ELSE IF ~is_dec_digit(input[1]) THEN Error
    ELSE Done(Drop(input, digit_end(input)), Take(input, digit_end(input)))

\* complete!: Incomplete becomes Error
complete(r) == IF r.k = "Incomplete" THEN Error ELSE r

\* alt!(a | b): the second alternative is tried only when the first is an
\* Error; Incomplete is returned as it is
alt(r1, r2) == IF r1.k = "Error" THEN r2 ELSE r1

\* alt_complete!(a | b): every alternative is under complete!, so the next
\* one is tried whenever this one is not Done
alt_complete(r1, r2) == IF IsDone(r1) THEN r1 ELSE complete(r2)

\* opt!: Error becomes Done with nothing consumed; Incomplete stays
opt(input, r) == IF r.k = "Error" THEN Done(input, <<>>) ELSE r

\* opt!(alt!(tag!("+") | tag!("-")))
opt_sign(input) == opt(input, alt(tag(input, <<"+">>), tag(input, <<"-">>)))

-----------------------------------------------------------------------------
(* Skippers *)

\* while i < len && input[i] != b'\n' { i += 1 }: the index it stops at
skip_line(input, i) ==
    IF \A j \in (i + 1)..Len(input) : input[j] # NL THEN Len(input)
    ELSE (CHOOSE j \in (i + 1)..Len(input) :
              /\ input[j] = NL
              /\ \A h \in (i + 1)..(j - 1) : input[h] # NL) - 1

\* json_whitespace without its two comment arms
whitespace_end_plain(input) ==
    IF \A j \in 1..Len(input) : input[j] \in {SP, TAB, NL} THEN Len(input)
    ELSE (CHOOSE j \in 1..Len(input) :
              /\ input[j] \notin {SP, TAB, NL}
              /\ \A h \in 1..(j - 1) : input[h] \in {SP, TAB, NL}) - 1

\* the while loop of json_whitespace: the index it stops at
whitespace_end(input) ==
    LET len == Len(input)
        loop[i \in Nat] ==
            IF i < len
            THEN CASE input[i + 1] = SP \/ input[i + 1] = TAB \/ input[i + 1] = NL ->
                          loop[i + 1]
                   [] input[i + 1] = "#" ->
                          loop[skip_line(input, i + 1)]
                   [] input[i + 1] = "/" /\ i < len - 1 /\ input[i + 2] = "/" ->
                          loop[skip_line(input, i + 2)]
                   [] OTHER -> i
            ELSE i
    IN  loop[0]

json_whitespace(input) ==
    Done(Drop(input, whitespace_end(input)), Take(input, whitespace_end(input)))

\* the while loop of inferrable_comma: where it stops, and its two flags
comma_end(input) ==
    LET len == Len(input)
        loop[i \in Nat, got_newline \in BOOLEAN, got_comma \in BOOLEAN] ==
            IF i < len
            THEN CASE input[i + 1] = SP \/ input[i + 1] = TAB ->
                          loop[i + 1, got_newline, got_comma]
                   [] input[i + 1] = NL ->
                          loop[i + 1, TRUE, got_comma]
                   [] input[i + 1] = "#" ->
                          loop[skip_line(input, i + 1), got_newline, got_comma]
                   [] input[i + 1] = "/" /\ i < len - 1 /\ input[i + 2] = "/" ->
                          loop[skip_line(input, i + 2), got_newline, got_comma]
                   [] input[i + 1] = "," /\ ~got_comma ->
                          loop[i + 1, got_newline, TRUE]
                   [] OTHER ->
                          [i |-> i, got_newline |-> got_newline, got_comma |-> got_comma]
            ELSE [i |-> i, got_newline |-> got_newline, got_comma |-> got_comma]
    IN  loop[0, FALSE, FALSE]

\* inferrable_comma without its final test of got_comma and got_newline
inferrable_comma_lenient(input) ==
    Done(Drop(input, comma_end(input).i), Take(input, comma_end(input).i))

inferrable_comma(input) ==
    CHOOSE r \in {
        IF st.got_comma \/ st.got_newline
        THEN Done(Drop(input, st.i), Take(input, st.i))
        ELSE Error
      : st \in {comma_end(input)} } : TRUE

-----------------------------------------------------------------------------
(* Scalars *)

\* value!(JsonValue::Null, tag!("null"))
json_null(input) ==
    IF IsDone(tag(input, <<"n", "u", "l", "l">>))
    THEN Done(Drop(input, 4), Null)
    ELSE tag(input, <<"n", "u", "l", "l">>)

\* tag!("true") => { |_| JsonValue::Boolean(true) }
json_true(input) ==
    IF IsDone(tag(input, <<"t", "r", "u", "e">>))
    THEN Done(Drop(input, 4), Boolean(TRUE))
    ELSE tag(input, <<"t", "r", "u", "e">>)

\* tag!("false") => { |_| JsonValue::Boolean(false) }
json_false(input) ==
    IF IsDone(tag(input, <<"f", "a", "l", "s", "e">>))
    THEN Done(Drop(input, 5), Boolean(FALSE))
    ELSE tag(input, <<"f", "a", "l", "s", "e">>)

json_boolean(input) == alt(json_true(input), json_false(input))

RECURSIVE DecimalValue(_)
\* the number a run of decimal digits denotes
DecimalValue(ds) ==
    IF Len(ds) = 0 THEN 0
    ELSE 10 * DecimalValue(Take(ds, Len(ds) - 1)) + DigitVal(ds[Len(ds)])

\* str::parse::<i64> of [sign] digits.  The documents of this model hold
\* runs of at most a few digits, far from the width of an i64.
ParseI64(text) ==
    IF text[1] = "-" THEN 0 - DecimalValue(Drop(text, 1))
    ELSE IF text[1] = "+" THEN DecimalValue(Drop(text, 1))
    ELSE DecimalValue(text)

\* recognize!(tuple!(opt!(alt!(tag!("+") | tag!("-"))), digit)), parse_to!(i64)
json_int(input) ==
    CHOOSE r \in {
        IF ~IsDone(s) THEN s
        ELSE CHOOSE r2 \in {
                 IF ~IsDone(d) THEN d
                 ELSE Done(d.rest, JInt(ParseI64(Take(input, Len(input) - Len(d.rest)))))
               : d \in {digit(s.rest)} } : TRUE
      : s \in {opt_sign(input)} } : TRUE

RECURSIVE Pow10(_)
Pow10(n) == IF n = 0 THEN 1 ELSE 10 * Pow10(n - 1)

RECURSIVE NormalFloat(_, _)
\* a decimal m * 10^e with the trailing zeros of m moved into e; zero is (0, 0)
NormalFloat(m, e) ==
    IF m = 0 THEN Float(0, 0)
    ELSE IF m % 10 = 0 THEN NormalFloat(m \div 10, e + 1)
    ELSE Float(m, e)

\* delimited!(first, tag!("."), last) of the two mantissa forms of double,
\* last being opt!(digit) in the one and digit in the other; out is
\* <<integer digits, fraction digits>>
float_digits(first, last_is_optional) ==
    IF ~IsDone(first) THEN first
    ELSE IF ~IsDone(tag(first.rest, <<".">>)) THEN tag(first.rest, <<".">>)
    ELSE CHOOSE r \in {
             IF ~IsDone(f) THEN f ELSE Done(f.rest, <<first.out, f.out>>)
           : f \in {IF last_is_optional
                    THEN opt(Drop(first.rest, 1), digit(Drop(first.rest, 1)))
                    ELSE digit(Drop(first.rest, 1))} } : TRUE

\* alt!(delimited!(digit, tag!("."), opt!(digit)) |
\*      delimited!(opt!(digit), tag!("."), digit))
float_mantissa(input) ==
    CHOOSE r \in {
        alt(float_digits(d, TRUE), float_digits(opt(input, d), FALSE))
      : d \in {digit(input)} } : TRUE

\* tuple!(alt!(tag!("e") | tag!("E")), opt!(alt!(tag!("+") | tag!("-"))), digit);
\* out is the exponent
float_exponent(input) ==
    IF ~IsDone(alt(tag(input, <<"e">>), tag(input, <<"E">>)))
    THEN alt(tag(input, <<"e">>), tag(input, <<"E">>))
    ELSE CHOOSE r \in {
             IF ~IsDone(s) THEN s
             ELSE CHOOSE r2 \in {
                      IF ~IsDone(d) THEN d
                      ELSE Done(d.rest, ParseI64(Take(Drop(input, 1),
                                                      Len(input) - 1 - Len(d.rest))))
                    : d \in {digit(s.rest)} } : TRUE
           : s \in {opt_sign(Drop(input, 1))} } : TRUE

\* the f64 of a literal: sign * digits * 10^exponent, in normal form
FloatOf(negative, mantissa, exponent) ==
    LET digits == DecimalValue(mantissa[1] \o mantissa[2])
        signed == IF negative THEN 0 - digits ELSE digits
        exp == exponent - Len(mantissa[2])
    IN  IF exp >= 0 THEN NormalFloat(signed * Pow10(exp), 0)
        ELSE NormalFloat(signed, exp)

\* nom::double: sign, mantissa, opt!(complete!(exponent)); then
\* JsonValue::Float.  The f64 is modelled by the decimal it was written as.
json_float(input) ==
    CHOOSE r \in {
        IF ~IsDone(s) THEN s
        ELSE CHOOSE r2 \in {
                 IF ~IsDone(m) THEN m
                 ELSE CHOOSE r3 \in {
                          IF IsDone(x)
                          THEN Done(x.rest, FloatOf(input[1] = "-", m.out, x.out))
                          ELSE Done(m.rest, FloatOf(input[1] = "-", m.out, 0))
                        : x \in {float_exponent(m.rest)} } : TRUE
               : m \in {float_mantissa(s.rest)} } : TRUE
      : s \in {opt_sign(input)} } : TRUE

\* the while loop of escaped_string
escaped_string(input) ==
    LET len == Len(input)
        loop[i \in Nat, s \in Seq(STRING)] ==
            IF i < len
            THEN IF i < len - 1 /\ input[i + 1] = BSLASH /\ input[i + 2] = QUOTE
                 THEN loop[i + 2, Append(s, QUOTE)]
                 ELSE IF input[i + 1] = QUOTE
                 THEN Done(Drop(input, i), s)
                 ELSE loop[i + 1, Append(s, input[i + 1])]
            ELSE Incomplete
    IN  loop[0, <<>>]

\* delimited!(char!('"'), escaped_string, char!('"')); String::from_utf8
\* succeeds on every document of this model (the bytes are ASCII)
json_string(input) ==
    IF ~IsDone(char(input, QUOTE)) THEN char(input, QUOTE)
    ELSE CHOOSE r \in {
             IF ~IsDone(body) THEN body
             ELSE IF ~IsDone(char(body.rest, QUOTE)) THEN char(body.rest, QUOTE)
             ELSE Done(Drop(body.rest, 1), String(body.out))
           : body \in {escaped_string(Drop(input, 1))} } : TRUE

\* the five scalar alternatives of json_value, in the order of the source
json_scalar(input) ==
    alt_complete(json_null(input),
    alt_complete(json_boolean(input),
    alt_complete(json_float(input),
    alt_complete(json_int(input),
                 json_string(input)))))

-----------------------------------------------------------------------------
(* Merge *)

RECURSIVE merge_json(_, _)
RECURSIVE merge_entries(_, _, _)

\* a turn that inserts the value without looking at the one it replaces
merge_entry_overwrite(obj, key, value) == MapInsert(MapRemove(obj, key), key, value)

\* one turn of the two `for (key, value)` loops of lib.rs:
\*     let new_value = match obj.remove(&key) {
\*         Some(old_value) => merge_json(old_value, value), _ => value };
\*     obj.insert(key, new_value);
merge_entry(obj, key, value) ==
    MapInsert(MapRemove(obj, key), key,
              IF key \in DOMAIN obj THEN merge_json(obj[key], value) ELSE value)

\* for (key, value) in obj_new.drain() { ... }: keys holds the keys still to
\* be drained.  The order of a drain is not specified; the keys are distinct
\* and each turn touches one key only, so every order gives the same map.
merge_entries(obj_prev, obj_new, keys) ==
    IF keys = {} THEN obj_prev
    ELSE CHOOSE r \in {
             merge_entries(st[2], obj_new, keys \ {st[1]})
           : st \in {<<key, merge_entry(obj_prev, key, obj_new[key])>>
                     : key \in {CHOOSE x \in keys : TRUE}} } : TRUE

\* a merge that does not descend: a key of both Objects takes the new value
merge_json_flat(old_value, new_value) ==
    IF old_value.t = "Object" /\ new_value.t = "Object"
    THEN Object([key \in DOMAIN old_value.o \cup DOMAIN new_value.o |->
                    IF key \in DOMAIN new_value.o THEN new_value.o[key]
                    ELSE old_value.o[key]])
    ELSE new_value

merge_json(old_value, new_value) ==
    IF old_value.t = "Object" /\ new_value.t = "Object"
    THEN Object(merge_entries(old_value.o, new_value.o, DOMAIN new_value.o))
    ELSE new_value

\* a closure that inserts each pair without merging: the last value of a key wins
collect_pairs_overwrite(pairs, idx, obj) ==
    [key \in DOMAIN obj \cup {pairs[i][1].s : i \in idx..Len(pairs)} |->
        IF \E i \in idx..Len(pairs) : pairs[i][1].s = key
        THEN pairs[CHOOSE i \in idx..Len(pairs) :
                       /\ pairs[i][1].s = key
                       /\ \A j \in (i + 1)..Len(pairs) : pairs[j][1].s # key][2]
        ELSE obj[key]]

RECURSIVE collect_pairs(_, _, _)
\* the closure of json_object_root: for (key, value) in pairs { ... }, from
\* the pair at index idx on; a key is always a JsonValue::String
collect_pairs(pairs, idx, obj) ==
    IF idx > Len(pairs) THEN obj
    ELSE CHOOSE r \in {
             collect_pairs(pairs, idx + 1, next)
           : next \in {merge_entry(obj, pairs[idx][1].s, pairs[idx][2])} } : TRUE

-----------------------------------------------------------------------------
(* Composite parsers *)

RECURSIVE json_value(_)
RECURSIVE json_array(_)
RECURSIVE json_object(_)
RECURSIVE json_object_root(_)
RECURSIVE json_pair(_)
RECURSIVE separated_list_loop(_, _, _)
RECURSIVE separated_list_complete(_, _)

\* tuple!(char!(c), json_whitespace)
open_delimiter(input, c) ==
    IF ~IsDone(char(input, c)) THEN char(input, c)
    ELSE json_whitespace(Drop(input, 1))

\* tuple!(json_whitespace, char!(c))
close_delimiter(input, c) == char(Drop(input, whitespace_end(input)), c)

\* a separator that knows ':' only
pair_separator_colon(input) ==
    CHOOSE r \in {
        IF ~IsDone(char(rest, ":")) THEN char(rest, ":")
        ELSE json_whitespace(Drop(rest, 1))
      : rest \in {Drop(input, whitespace_end(input))} } : TRUE

\* tuple!(json_whitespace, alt!(char!(':') | char!('=')), json_whitespace)
pair_separator(input) ==
    CHOOSE r \in {
        IF ~IsDone(alt(char(rest, ":"), char(rest, "=")))
        THEN alt(char(rest, ":"), char(rest, "="))
        ELSE json_whitespace(Drop(rest, 1))
      : rest \in {Drop(input, whitespace_end(input))} } : TRUE

\* the element parser of the two lists of lib.rs.  Both run under complete!
\* (separated_list_complete!): the list treats an element that is not Done
\* as an Error.
list_element(kind, input) ==
    IF kind = "value" THEN json_value(input) ELSE json_pair(input)

\* the loop of separated_list!: separator, then element; the list ends, with
\* the separator not consumed, when either fails or consumes nothing
separated_list_loop(kind, input, res) ==
    CHOOSE r \in {
        IF ~IsDone(s) \/ Len(s.rest) = Len(input) THEN Done(input, res)
        ELSE CHOOSE r2 \in {
                 IF ~IsDone(el) \/ Len(el.rest) = Len(s.rest) THEN Done(input, res)
                 ELSE separated_list_loop(kind, el.rest, Append(res, el.out))
               : el \in {list_element(kind, s.rest)} } : TRUE
      : s \in {inferrable_comma(input)} } : TRUE

\* separated_list_complete!(inferrable_comma, element)
separated_list_complete(kind, input) ==
    CHOOSE r \in {
        IF ~IsDone(first) THEN Done(input, <<>>)
        ELSE IF Len(first.rest) = Len(input) THEN Error
        ELSE separated_list_loop(kind, first.rest, <<first.out>>)
      : first \in {list_element(kind, input)} } : TRUE

\* alt_complete!(json_null | json_boolean | json_float | json_int |
\*               json_string | json_array | json_object): the first
\* alternative, in this order, that is Done.  The parsers are pure, so the
\* three results are computed side by side.
json_value(input) ==
    CHOOSE r \in {
        alt_complete(scalar, alt_complete(array, object))
      : scalar \in {json_scalar(input)},
        array \in {json_array(input)},
        object \in {json_object(input)} } : TRUE

\* delimited!(tuple!(char!('['), json_whitespace),
\*            separated_list_complete!(inferrable_comma, json_value),
\*            tuple!(json_whitespace, char!(']')))
json_array(input) ==
    CHOOSE r \in {
        IF ~IsDone(open) THEN open
        ELSE CHOOSE r2 \in {
                 IF ~IsDone(elems) THEN elems
                 ELSE IF ~IsDone(close_delimiter(elems.rest, "]"))
                 THEN close_delimiter(elems.rest, "]")
                 ELSE Done(close_delimiter(elems.rest, "]").rest, Array(elems.out))
               : elems \in {separated_list_complete("value", open.rest)} } : TRUE
      : open \in {open_delimiter(input, "[")} } : TRUE

\* delimited!(tuple!(char!('{'), json_whitespace), json_object_root,
\*            tuple!(json_whitespace, char!('}')))
json_object(input) ==
    CHOOSE r \in {
        IF ~IsDone(open) THEN open
        ELSE CHOOSE r2 \in {
                 IF ~IsDone(body) THEN body
                 ELSE IF ~IsDone(close_delimiter(body.rest, "}"))
                 THEN close_delimiter(body.rest, "}")
                 ELSE Done(close_delimiter(body.rest, "}").rest, body.out)
               : body \in {json_object_root(open.rest)} } : TRUE
      : open \in {open_delimiter(input, "{")} } : TRUE

\* preceded!(tuple!(json_whitespace, alt!(char!(':') | char!('=')),
\*                  json_whitespace), json_value)
separated_value(input) ==
    CHOOSE r \in {
        IF ~IsDone(sep) THEN sep ELSE json_value(sep.rest)
      : sep \in {pair_separator(input)} } : TRUE

\* tuple!(json_string, alt!(preceded!(json_whitespace, json_object) |
\*                          separated_value)); out is <<key, value>>.  The two
\* alternatives are computed side by side, as in json_value.
json_pair(input) ==
    CHOOSE r \in {
        IF ~IsDone(key) THEN key
        ELSE CHOOSE r2 \in {
                 IF ~IsDone(alt(object, value)) THEN alt(object, value)
                 ELSE Done(alt(object, value).rest, <<key.out, alt(object, value).out>>)
               : object \in {json_object(Drop(key.rest, whitespace_end(key.rest)))},
                 value \in {separated_value(key.rest)} } : TRUE
      : key \in {json_string(input)} } : TRUE

\* map!(separated_list_complete!(inferrable_comma, pair), |pairs| { ... })
json_object_root(input) ==
    CHOOSE r \in {
        IF ~IsDone(pairs) THEN pairs
        ELSE Done(pairs.rest, Object(collect_pairs(pairs.out, 1, EmptyMap)))
      : pairs \in {separated_list_complete("pair", input)} } : TRUE

\* delimited!(json_whitespace, alt!(json_object | json_object_root),
\*            json_whitespace)
json_value_root(input) ==
    CHOOSE r \in {
        CHOOSE r2 \in {
            IF ~IsDone(alt(object, root)) THEN alt(object, root)
            ELSE Done(json_whitespace(alt(object, root).rest).rest, alt(object, root).out)
          : object \in {json_object(start)},
            root \in {json_object_root(start)} } : TRUE
      : start \in {json_whitespace(input).rest} } : TRUE

-----------------------------------------------------------------------------
(* The caller: it hands one or two documents to a parser of lib.rs and      *)
(* keeps the outcomes, as the parse_test! macro of the test module does,    *)
(* or hands values to merge_json.                                           *)

\* an outcome slot before the parser has run
NotRun == [k |-> "NotRun", rest |-> <<>>, out |-> <<>>]

Call(p, input) ==
    CASE p = "root" -> json_value_root(input)
      [] p = "value" -> json_value(input)

ParseA ==
    /\ pc = "start"
    /\ parser[1] # "none"
    /\ resA' = Call(parser[1], docA)
    /\ pc' = "parsedA"
    /\ UNCHANGED <<docA, docB, parser, meta, resB, old, new, third, merged>>

ParseB ==
    /\ pc = "parsedA"
    /\ parser[2] # "none"
    /\ resB' = Call(parser[2], docB)
    /\ pc' = "done"
    /\ UNCHANGED <<docA, docB, parser, meta, resA, old, new, third, merged>>

\* merge_json(old, new)
Merge ==
    /\ pc = "start"
    /\ meta.family = "merge"
    /\ merged' = <<merge_json(old, new)>>
    /\ pc' = "merged"
    /\ UNCHANGED <<docA, docB, parser, meta, resA, resB, old, new, third>>

\* the key every value of a repeated-key run is stored under
RepeatedKey == String(<<"k">>)

\* three successive values of one repeated key, as the closure of
\* json_object_root folds them: merge_json(merge_json(old, new), third)
MergeLeft ==
    /\ pc = "start"
    /\ meta.family = "assoc"
    /\ merged' = <<collect_pairs(<<<<RepeatedKey, old>>, <<RepeatedKey, new>>,
                                   <<RepeatedKey, third>>>>, 1, EmptyMap)[RepeatedKey.s]>>
    /\ pc' = "left"
    /\ UNCHANGED <<docA, docB, parser, meta, resA, resB, old, new, third>>

\* the other grouping: merge_json(old, merge_json(new, third))
MergeRight ==
    /\ pc = "left"
    /\ merged' = Append(merged, merge_json(old, merge_json(new, third)))
    /\ pc' = "done"
    /\ UNCHANGED <<docA, docB, parser, meta, resA, resB, old, new, third>>

-----------------------------------------------------------------------------
(* Documents and values the caller builds *)

\* the sequences over S of length at most n
SeqsUpTo(S, n) == UNION {[1..m -> S] : m \in 0..n}

RECURSIVE Concat(_)
\* the concatenation of a sequence of byte sequences
Concat(ss) ==
    IF Len(ss) = 0 THEN <<>>
    ELSE IF Len(ss) = 1 THEN ss[1]
    ELSE Concat(SubSeq(ss, 1, Len(ss) \div 2))
         \o Concat(SubSeq(ss, Len(ss) \div 2 + 1, Len(ss)))

\* a string literal with body s
Quoted(s) == <<QUOTE>> \o s \o <<QUOTE>>

\* a literal and the value the tests of lib.rs expect for it
LitInt(n) == [text |-> <<DigitChars[n + 1]>>, value |-> JInt(n)]

LitNull == [text |-> <<"n", "u", "l", "l">>, value |-> Null]

LitTrue == [text |-> <<"t", "r", "u", "e">>, value |-> Boolean(TRUE)]

LitFloat == [text |-> <<"1", ".", "5">>, value |-> Float(15, -1)]

\* a float written without fraction digits
LitFloatDot == [text |-> <<"1", ".">>, value |-> Float(1, 0)]

LitString == [text |-> Quoted(<<"s">>), value |-> String(<<"s">>)]

LitArray(lit) == [text |-> <<"[">> \o lit.text \o <<"]">>, value |-> Array(<<lit.value>>)]

LitEmptyObject == [text |-> <<"{", "}">>, value |-> Object(EmptyMap)]

LitObject(key, lit) ==
    [text |-> <<"{">> \o Quoted(key) \o <<":">> \o lit.text \o <<"}">>,
     value |-> Object(MapInsert(EmptyMap, key, lit.value))]

HashComment == <<"#", "c", NL>>

SlashComment == <<"/", "/", "c", NL>>

\* the values the variables of a family that does not merge keep
NoMerge == /\ old = Null /\ new = Null /\ third = Null /\ merged = <<>>

\* the values the variables of a family that does not parse keep
NoParse == /\ docA = <<>> /\ docB = <<>> /\ parser = <<"none", "none">>
           /\ resA = NotRun /\ resB = NotRun

\* a family that parses docA and then docB
TwoDocuments(first, second) ==
    /\ parser = <<first, second>>
    /\ resA = NotRun /\ resB = NotRun
    /\ NoMerge
    /\ pc = "start"

-----------------------------------------------------------------------------
(* Root documents: every short byte string, and the documents spec.md      *)
(* names, handed to json_value_root.                                       *)

MaxLen == 4

RootBytes == {QUOTE, "a", "@", "{", "}", ":", "1", SP, NL}

UnterminatedDoc == <<QUOTE, "a", "b", "c">>

InvalidTokenDoc == <<"@", "@", "@">>

TrailingDataDoc == <<QUOTE, "a", QUOTE, ":", "1", SP, "@">>

RootDocs == SeqsUpTo(RootBytes, MaxLen)
            \cup {UnterminatedDoc, InvalidTokenDoc, TrailingDataDoc}

InitRoot ==
    /\ docA \in RootDocs
    /\ docB = <<>>
    /\ parser = <<"root", "none">>
    /\ meta = [family |-> "root"]
    /\ resA = NotRun /\ resB = NotRun
    /\ NoMerge
    /\ pc = "start"

SpecRoot == InitRoot /\ [][ParseA]_vars

-----------------------------------------------------------------------------
(* Object bodies: a list of pairs, handed to json_value_root bare (docA)   *)
(* and wrapped in braces (docB).                                           *)

MaxPairs == 3

ObjectKeys == {<<"a">>, <<"b">>}

ObjectValues ==
    {LitInt(1),
     LitObject(<<"x">>, LitInt(1)),
     LitObject(<<"y">>, LitInt(2)),
     LitObject(<<"x">>, LitObject(<<"y">>, LitInt(1))),
     LitObject(<<"x">>, LitObject(<<"z">>, LitInt(2))),
     LitFloatDot}

PairText(pair) == Quoted(pair[1]) \o <<":">> \o pair[2].text

\* the pairs, separated by commas
Body(pairs) ==
    Concat([i \in 1..Len(pairs) |->
               IF i = 1 THEN PairText(pairs[i]) ELSE <<",">> \o PairText(pairs[i])])

InitObject ==
    \E pairs \in SeqsUpTo(ObjectKeys \X ObjectValues, MaxPairs) :
        /\ meta = [family |-> "object", pairs |-> pairs]
        /\ docA = Body(pairs)
        /\ docB = <<"{">> \o Body(pairs) \o <<"}">>
        /\ TwoDocuments("root", "root")

NextParse == ParseA \/ ParseB

SpecObject == InitObject /\ [][NextParse]_vars

-----------------------------------------------------------------------------
(* Pairs: an object of one pair, key, separator, value, handed to           *)
(* json_value with ':' (docA) and with '=' or with no separator (docB).     *)

PairKeys == {<<"a">>, <<"b", "c">>}

PairValues ==
    {LitInt(1), LitNull, LitTrue, LitFloat, LitString, LitArray(LitInt(1)),
     LitEmptyObject, LitObject(<<"x">>, LitInt(1))}

Gaps == {<<>>, <<SP>>, <<NL>>}

InitPair ==
    \E key \in PairKeys, lit \in PairValues, before \in Gaps, after \in Gaps,
       variant \in {"equals", "omitted"} :
        \E gap \in IF variant = "omitted" THEN Gaps ELSE {<<>>} :
            /\ meta = [family |-> "pair", key |-> key, lit |-> lit,
                       variant |-> variant, gap |-> gap]
            /\ docA = <<"{">> \o Quoted(key) \o before \o <<":">> \o after
                      \o lit.text \o <<"}">>
            /\ docB = IF variant = "equals"
                      THEN <<"{">> \o Quoted(key) \o before \o <<"=">> \o after
                           \o lit.text \o <<"}">>
                      ELSE <<"{">> \o Quoted(key) \o gap \o lit.text \o <<"}">>
            /\ TwoDocuments("value", "value")

SpecPair == InitPair /\ [][NextParse]_vars

-----------------------------------------------------------------------------
(* Arrays: two elements with a single comma between them (docA) and with a *)
(* separator run between them (docB); or one element (docA) and the same   *)
(* element with a run before the closing bracket (docB).                   *)

MaxRun == 2

ArrayValues == {LitInt(1), LitString, LitArray(LitInt(2))}

SeparatorItems == {<<SP>>, <<TAB>>, <<NL>>, <<",">>, HashComment, SlashComment}

Runs(items, n) == {Concat(run) : run \in SeqsUpTo(items, n)}

InitArray ==
    \E first \in ArrayValues, second \in ArrayValues,
       run \in Runs(SeparatorItems, MaxRun), shape \in {"between", "trailing"} :
        /\ shape = "trailing" => second = first
        /\ meta = [family |-> "array", shape |-> shape, first |-> first,
                   second |-> second, run |-> run]
        /\ docA = IF shape = "between"
                  THEN <<"[">> \o first.text \o <<",">> \o second.text \o <<"]">>
                  ELSE <<"[">> \o first.text \o <<"]">>
        /\ docB = IF shape = "between"
                  THEN <<"[">> \o first.text \o run \o second.text \o <<"]">>
                  ELSE <<"[">> \o first.text \o run \o <<"]">>
        /\ TwoDocuments("value", "value")

SpecArray == InitArray /\ [][NextParse]_vars

-----------------------------------------------------------------------------
(* Skip points: a document (docA) and the same document with a run of      *)
(* whitespace and comments put at one skip point, or at every skip point   *)
(* (docB).  Mark stands where a skip point is.                             *)

MaxWs == 2

Mark == "~"

BracedTemplate ==
    <<Mark, "{", Mark, QUOTE, "a", QUOTE, Mark, ":", Mark, "1", Mark, ",", Mark,
      QUOTE, "b", QUOTE, Mark, "=", Mark, "[", Mark, "1", Mark, ",", Mark, "2",
      Mark, "]", Mark, "}", Mark>>

BareTemplate ==
    <<Mark, QUOTE, "a", QUOTE, "{", Mark, QUOTE, "x", QUOTE, Mark, ":", Mark,
      QUOTE, "s", QUOTE, Mark, "}", Mark, NL, Mark, QUOTE, "b", QUOTE, Mark, ":",
      Mark, "[", Mark, "]", Mark>>

EmptyTemplate == <<Mark, "{", Mark, "}", Mark>>

NumberTemplate == <<Mark, QUOTE, "a", QUOTE, Mark, "=", Mark, "4", "2", Mark>>

Templates == {BracedTemplate, BareTemplate, EmptyTemplate, NumberTemplate}

SkipItems == {<<SP>>, <<TAB>>, <<NL>>, HashComment, SlashComment}

Marks(template) == {i \in DOMAIN template : template[i] = Mark}

\* the template with run at the marks of the set at, and nothing at the others
Fill(template, at, run) ==
    Concat([i \in DOMAIN template |->
               IF template[i] # Mark THEN <<template[i]>>
               ELSE IF i \in at THEN run ELSE <<>>])

InitSkip ==
    \E template \in Templates, run \in Runs(SkipItems, MaxWs) :
        \E at \in {{i} : i \in Marks(template)} \cup {Marks(template)} :
            /\ meta = [family |-> "skip", template |-> template, at |-> at, run |-> run]
            /\ docA = Fill(template, {}, <<>>)
            /\ docB = Fill(template, at, run)
            /\ TwoDocuments("root", "root")

SpecSkip == InitSkip /\ [][NextParse]_vars

-----------------------------------------------------------------------------
(* Merges: two values handed to merge_json.                                *)

MaxInt == 1

MergeKeys == {<<"x">>, <<"y">>}

\* the Objects whose keys are among keys and whose values are among values
ObjectsOver(keys, values) ==
    {Object(o) : o \in UNION {[ks -> values] : ks \in SUBSET keys}}

MergeLeaves == {JInt(i) : i \in 1..MaxInt} \cup {Array(<<JInt(1)>>)}

MergeValues ==
    MergeLeaves
    \cup ObjectsOver(MergeKeys, MergeLeaves \cup ObjectsOver(MergeKeys, MergeLeaves))

InitMerge ==
    /\ old \in MergeValues
    /\ new \in MergeValues
    /\ third = Null
    /\ merged = <<>>
    /\ meta = [family |-> "merge"]
    /\ NoParse
    /\ pc = "start"

SpecMerge == InitMerge /\ [][Merge]_vars

-----------------------------------------------------------------------------
(* Chained repeats: three values of one repeated key.                      *)

AssocLeaves == {JInt(1)}

AssocValues ==
    AssocLeaves \cup {Array(<<>>)}
    \cup ObjectsOver(MergeKeys, AssocLeaves \cup ObjectsOver(MergeKeys, AssocLeaves))

InitAssoc ==
    /\ old \in AssocValues
    /\ new \in AssocValues
    /\ third \in AssocValues
    /\ merged = <<>>
    /\ meta = [family |-> "assoc"]
    /\ NoParse
    /\ pc = "start"

NextAssoc == MergeLeft \/ MergeRight

SpecAssoc == InitAssoc /\ [][NextAssoc]_vars

-----------------------------------------------------------------------------
(* Every family *)

Init ==
    \/ InitRoot
    \/ InitObject
    \/ InitPair
    \/ InitArray
    \/ InitSkip
    \/ InitMerge
    \/ InitAssoc

Next == ParseA \/ ParseB \/ Merge \/ MergeLeft \/ MergeRight

Spec == Init /\ [][Next]_vars

-----------------------------------------------------------------------------
(* Properties *)

\* the merge contract, stated on the values alone
RECURSIVE ContractMerge(_, _)
ContractMerge(a, b) ==
    IF a.t = "Object" /\ b.t = "Object"
    THEN Object([key \in DOMAIN a.o \cup DOMAIN b.o |->
                    IF key \notin DOMAIN b.o THEN a.o[key]
                    ELSE IF key \notin DOMAIN a.o THEN b.o[key]
                    ELSE ContractMerge(a.o[key], b.o[key])])
    ELSE b

\* C1: merge_json(old, new) of two Objects is the Object over the union of
\* their keys in which a key of old alone keeps old's value, a key of new
\* alone has new's value and a key of both has the merge of the two values;
\* of any other two values it is new.
C1_MergeContract ==
    pc = "merged" =>
        /\ merged[1] = ContractMerge(old, new)
        /\ (old.t = "Object" /\ new.t = "Object") =>
               /\ merged[1].t = "Object"
               /\ DOMAIN merged[1].o = DOMAIN old.o \cup DOMAIN new.o
               /\ \A key \in DOMAIN old.o \ DOMAIN new.o : merged[1].o[key] = old.o[key]
               /\ \A key \in DOMAIN new.o \ DOMAIN old.o : merged[1].o[key] = new.o[key]
               /\ \A key \in DOMAIN old.o \cap DOMAIN new.o :
                      merged[1].o[key] = merge_json(old.o[key], new.o[key])
        /\ (old.t # "Object" \/ new.t # "Object") => merged[1] = new

\* two Objects were merged: a key of old alone, and a key of both whose two
\* values are Objects, each with a key of its own, merged into a third
C1_Witness ==
    /\ pc = "merged"
    /\ old.t = "Object" /\ new.t = "Object"
    /\ DOMAIN old.o \ DOMAIN new.o # {}
    /\ \E key \in DOMAIN old.o \cap DOMAIN new.o :
           /\ old.o[key].t = "Object" /\ new.o[key].t = "Object"
           /\ DOMAIN old.o[key].o \ DOMAIN new.o[key].o # {}
           /\ DOMAIN new.o[key].o \ DOMAIN old.o[key].o # {}
           /\ merged[1].o[key] \notin {old.o[key], new.o[key]}

\* the values of key among the pairs, in source order
ValuesOf(pairs, key) ==
    [i \in 1..Cardinality({j \in 1..Len(pairs) : pairs[j][1] = key}) |->
        pairs[CHOOSE j \in 1..Len(pairs) :
                  /\ pairs[j][1] = key
                  /\ Cardinality({h \in 1..j : pairs[h][1] = key}) = i][2].value]

RECURSIVE FoldMerge(_)
\* the left-to-right fold of merge_json over values, the first as the seed
FoldMerge(values) ==
    IF Len(values) = 1 THEN values[1]
    ELSE merge_json(FoldMerge(SubSeq(values, 1, Len(values) - 1)), values[Len(values)])

\* the Object of the distinct keys of pairs, each with its values folded
Folded(pairs) ==
    Object([key \in {pairs[i][1] : i \in 1..Len(pairs)} |-> FoldMerge(ValuesOf(pairs, key))])

\* C2 (as amended): the Object json_object_root makes of a pair list holds
\* each distinct key once, with the left-to-right fold of merge_json over the
\* key's values; so an earlier Object value is merged with a later Object
\* value, and is replaced by a later value that is not an Object.
C2_FoldedPairs ==
    (pc = "done" /\ meta.family = "object") =>
        /\ resB.k = "Done" /\ resB.rest = <<>> /\ resB.out = Folded(meta.pairs)
        /\ (resA.k = "Done" /\ resA.rest = <<>>) => resA.out = Folded(meta.pairs)
        /\ \A i \in 1..Len(meta.pairs) :
               (/\ \A j \in (i + 1)..Len(meta.pairs) : meta.pairs[j][1] # meta.pairs[i][1]
                /\ meta.pairs[i][2].value.t # "Object")
               => resB.out.o[meta.pairs[i][1]] = meta.pairs[i][2].value

\* C2 (as stated): the fold, and a repeated key never overwrites an earlier
\* Object value: the keys of an Object value stay under its key when the key
\* comes again.
C2_NeverOverwritesObject ==
    (pc = "done" /\ meta.family = "object") =>
        /\ resB.k = "Done" /\ resB.rest = <<>> /\ resB.out = Folded(meta.pairs)
        /\ \A i \in 1..Len(meta.pairs) :
               (/\ meta.pairs[i][2].value.t = "Object"
                /\ \E j \in (i + 1)..Len(meta.pairs) : meta.pairs[j][1] = meta.pairs[i][1])
               => /\ resB.out.o[meta.pairs[i][1]].t = "Object"
                  /\ DOMAIN meta.pairs[i][2].value.o
                         \subseteq DOMAIN resB.out.o[meta.pairs[i][1]].o

\* one key three times, an Object, then a value that is not one, then an
\* Object again: the fold keeps the last Object alone
C2_Witness ==
    /\ pc = "done" /\ meta.family = "object"
    /\ Len(meta.pairs) = 3
    /\ meta.pairs[1][1] = meta.pairs[2][1] /\ meta.pairs[2][1] = meta.pairs[3][1]
    /\ meta.pairs[1][2].value.t = "Object"
    /\ meta.pairs[2][2].value.t # "Object"
    /\ meta.pairs[3][2].value.t = "Object"
    /\ meta.pairs[3][2].value # meta.pairs[1][2].value
    /\ resB.k = "Done"
    /\ resB.out = Object(MapInsert(EmptyMap, meta.pairs[1][1], meta.pairs[3][2].value))
    /\ resA = resB

\* C3: json_value_root never is Done with a value and bytes left over.
C3_NoTrailingData ==
    (pc = "parsedA" /\ meta.family = "root" /\ resA.k = "Done") => resA.rest = <<>>

\* C5: json_value_root of a document that ends inside a string is Incomplete,
\* and of a document that starts with a token of no rule is an Error.
C5_IncompleteOrMalformed ==
    (pc = "parsedA" /\ meta.family = "root") =>
        /\ docA = UnterminatedDoc => resA.k = "Incomplete"
        /\ docA = InvalidTokenDoc => resA.k = "Error"

\* C6: json_value_root of an object body alone and of the body in braces
\* have the same outcome and the same Object.
C6_BraceOmission ==
    (pc = "done" /\ meta.family = "object") => resA = resB

Commas(run) == Cardinality({i \in 1..Len(run) : run[i] = ","})

HasNewline(run) == \E i \in 1..Len(run) : run[i] = NL

\* a run inferrable_comma is to accept: at most one comma, and a comma or a
\* newline
Accepted(run) == Commas(run) <= 1 /\ (Commas(run) = 1 \/ HasNewline(run))

\* C4: two array elements with an accepted run between them (spaces, tabs,
\* newlines, comments, at most one comma; a comma or a newline) parse to the
\* Array the two make with a single comma; with only spaces and tabs, or with
\* two commas, between them the array does not parse.
C4_SeparatorRun ==
    (pc = "done" /\ meta.family = "array" /\ meta.shape = "between") =>
        /\ resA = Done(<<>>, Array(<<meta.first.value, meta.second.value>>))
        /\ Accepted(meta.run) => resB = resA
        /\ (meta.run # <<>> /\ \A i \in 1..Len(meta.run) : meta.run[i] \in {SP, TAB})
               => ~IsDone(resB)
        /\ Commas(meta.run) > 1 => ~IsDone(resB)

\* a newline and a comment, and no comma, between the two elements
C4_Witness ==
    /\ pc = "done" /\ meta.family = "array" /\ meta.shape = "between"
    /\ Commas(meta.run) = 0
    /\ meta.run = <<NL>> \o HashComment
    /\ resB = Done(<<>>, Array(<<meta.first.value, meta.second.value>>))

\* C10: an array whose last element is followed by an accepted run and ']'
\* parses to the elements seen.
C10_TrailingSeparator ==
    (pc = "done" /\ meta.family = "array" /\ meta.shape = "trailing"
     /\ Accepted(meta.run))
    => resB = Done(<<>>, Array(<<meta.first.value>>))

\* C7: key ':' value and key '=' value parse to the same pair; key and an
\* object literal with no separator parse to the pair of key ':' and the
\* literal; key and a value that is not an object literal with no separator
\* is not a pair, and the object of it does not parse.
C7_PairSeparator ==
    (pc = "done" /\ meta.family = "pair") =>
        /\ resA = Done(<<>>, Object(MapInsert(EmptyMap, meta.key, meta.lit.value)))
        /\ meta.variant = "equals" => resB = resA
        /\ (meta.variant = "omitted" /\ meta.lit.value.t = "Object") => resB = resA
        /\ (meta.variant = "omitted" /\ meta.lit.value.t # "Object") => ~IsDone(resB)

\* a key, a newline and an object literal, with no separator
C7_Witness ==
    /\ pc = "done" /\ meta.family = "pair"
    /\ meta.variant = "omitted" /\ meta.gap = <<NL>>
    /\ meta.lit.value.t = "Object" /\ meta.lit.value.o # EmptyMap
    /\ resB = Done(<<>>, Object(MapInsert(EmptyMap, meta.key, meta.lit.value)))

\* C8: a document that parses, with a run of spaces, tabs, newlines and
\* comments put at a skip point, or at every skip point, parses to the same
\* value with nothing left.
C8_SkipInsertion ==
    (pc = "done" /\ meta.family = "skip") =>
        /\ resA.k = "Done" /\ resA.rest = <<>>
        /\ resB = resA

\* a '#' comment and a '//' comment at every skip point of a document with
\* an array in an object
C8_Witness ==
    /\ pc = "done" /\ meta.family = "skip"
    /\ meta.template = BracedTemplate
    /\ meta.at = Marks(BracedTemplate)
    /\ meta.run = HashComment \o SlashComment
    /\ resB.k = "Done" /\ resB.rest = <<>>
    /\ resB.out.t = "Object" /\ DOMAIN resB.out.o = {<<"a">>, <<"b">>}
    /\ resB.out.o[<<"b">>] = Array(<<JInt(1), JInt(2)>>)

RECURSIVE Breaks(_, _, _)
\* the triples the two groupings differ on: an Object, then a value that is
\* not one, then an Object that the first adds to; or three Objects with a
\* key of all three whose values are such a triple
Breaks(a, b, c) ==
    IF a.t = "Object" /\ b.t = "Object" /\ c.t = "Object"
    THEN \E key \in DOMAIN a.o \cap DOMAIN b.o \cap DOMAIN c.o :
             Breaks(a.o[key], b.o[key], c.o[key])
    ELSE /\ a.t = "Object" /\ b.t # "Object" /\ c.t = "Object"
         /\ merge_json(a, c) # c

\* C9 (as amended): the two groupings of three successive values of a key
\* agree exactly when the values are no triple of Breaks.
C9_AssociativeUnlessBroken ==
    pc = "done" /\ meta.family = "assoc" =>
        (merged[1] = merged[2] <=> ~Breaks(old, new, third))

\* C9 (as stated): merge_json(merge_json(a, b), c) = merge_json(a, merge_json(b, c)).
C9_Associative ==
    pc = "done" /\ meta.family = "assoc" => merged[1] = merged[2]

\* three Objects with a key of all three, whose values are Objects that are
\* merged, grouped either way, into one Object
C9_Witness ==
    /\ pc = "done" /\ meta.family = "assoc"
    /\ old.t = "Object" /\ new.t = "Object" /\ third.t = "Object"
    /\ \E key \in DOMAIN old.o \cap DOMAIN new.o \cap DOMAIN third.o :
           /\ old.o[key].t = "Object" /\ new.o[key].t = "Object"
           /\ third.o[key].t = "Object"
           /\ old.o[key] # new.o[key] /\ new.o[key] # third.o[key]
           /\ merged[1].o[key] \notin {old.o[key], new.o[key], third.o[key]}
    /\ merged[1] = merged[2]

====
